---- MODULE Spec2Model ----
(***************************************************************************)
(* Model of the wound-tracking backend (src/backend/api.py): the           *)
(* measurements table, the three HTTP handlers /predict, /history and      *)
(* /patients, and the two trend heuristics check_healing_progress and      *)
(* check_infection_proxy.                                                  *)
(*                                                                         *)
(* Numbers.  area is kept as the number of mask pixels above the 0.5       *)
(* threshold (api.py:123-124 stores count / (224*224) * 100; the order of  *)
(* two areas and the ratio (previous - latest) / previous are the same in  *)
(* both units).  redness_score and pus_score are kept in hundredths of a   *)
(* percent (api.py:58 rounds them to 2 decimals), so "pus_score > 5.0" is  *)
(* "pus_score > 500".  The pixel counts of Scans are chosen so that the    *)
(* double-precision value of the improvement computed by api.py:72 is      *)
(* exactly 1.0 and 2.0 where the rational value is.                        *)
(*                                                                         *)
(* Requests.  app.run (api.py:198) serves each request on its own thread,  *)
(* so a /predict request is a process whose steps are the places where it  *)
(* touches the database: the read of check_healing_progress (129), the     *)
(* INSERT and commit (133-137) and the read of check_infection_proxy       *)
(* (139).  time.time() (136) reads the clock, which no request writes and  *)
(* which moves independently of the table, so it is taken together with    *)
(* the read before it: a request may still insert after a request that     *)
(* read a later time.  /history and /patients each do one read and are one *)
(* step.                                                                   *)
(*                                                                         *)
(* Dashboard.  src/frontend/app.py is a Streamlit script that is run from  *)
(* top to bottom on every event of one browser session; a run is one step. *)
(* SpecUI is that session against the same table: its requests.post and    *)
(* requests.get calls wait for the answer, so a /predict request of the    *)
(* session runs to its return within the step.                             *)
(***************************************************************************)
EXTENDS Integers, Sequences, FiniteSets, Bags

\* ---------------------------------------------------------------- bounds
MaxRows == 3        \* rows the table may hold (stored + in flight)
MaxClock == 2       \* distinct values time.time() may return
NReq == 2           \* /predict requests that may be in flight together

\* ------------------------------------------------------- program constants
ImagePixels == 50176        \* 224 * 224
PusLimit == 500             \* 5.0 percent, in hundredths
DiabeticStall == 1          \* stall_threshold if is_diabetic
DefaultStall == 2           \* stall_threshold otherwise

DefaultPatient == "default_patient"
NoPatient == "<missing>"
PatientArgs == {"p1", NoPatient}            \* the patient_id query argument
PatientOrder == <<"default_patient", "p1", "p1 b">> \* ORDER BY patient_id ASC

\* Outcomes of the image pipeline (api.py:117-128) for the photographs the
\* clients upload: mask pixel count, redness, pus, healthy-tissue percent.
Scans ==
  { [area |-> 0,    redness |-> 0,    pus |-> 0,   healthy |-> 50],
    [area |-> 9800, redness |-> 1000, pus |-> 600, healthy |-> 40],
    [area |-> 9702, redness |-> 2000, pus |-> 600, healthy |-> 60],
    [area |-> 9604, redness |-> 2000, pus |-> 500, healthy |-> 70] }

\* The form fields and photographs of the /predict requests: every scan for
\* patient p1, with the diabetic box ticked or not, and two scans sent with
\* no patient_id and no is_diabetic field.
Uploads ==
  { [patient_id |-> "p1", is_diabetic |-> d, scan |-> s] :
      d \in {"True", "false"}, s \in Scans }
  \cup
  { [patient_id |-> NoPatient, is_diabetic |-> "<missing>", scan |-> s] :
      s \in { t \in Scans : t.redness <= 1000 } }

VARIABLES
  store,               \* the measurements table, in rowid order
  clock,               \* the value time.time() returns now
  model_segmentation,  \* TRUE when the handle is not None
  model_classifier,
  reqs,                \* the bag of /predict requests in flight: their local
                       \* variables (rows: the areas check_healing_progress
                       \* read, kept until the INSERT; row: the id of the
                       \* row inserted, 0 before)
  resp,                \* the response the last step sent (NoResp: none)
  session_state,       \* st.session_state of the one dashboard session
  screen               \* what the last script run of the dashboard drew

vars == <<store, clock, model_segmentation, model_classifier, reqs, resp,
          session_state, screen>>

\* ------------------------------------------------------------ arithmetic
\* n / d rounded to the nearest integer, ties to even (the "%.2f" of an
\* exactly representable quotient).
RoundDiv(n, d) ==
  LET q == n \div d
      r == n % d
  IN  IF 2 * r < d THEN q
      ELSE IF 2 * r > d THEN q + 1
      ELSE IF q % 2 = 0 THEN q ELSE q + 1

\* the stored area in hundredths of a percent, as "{area:.2f}" prints it
AreaPct(area) == RoundDiv(area * 10000, ImagePixels)

\* ------------------------------------------------------------- the table
PatientIds(st) == { st[i].patient_id : i \in 1..Len(st) }

RowsOf(st, patient_id) == { i \in 1..Len(st) : st[i].patient_id = patient_id }

\* The first k rows of S in "ORDER BY timestamp DESC": every order of the
\* rows that agrees with the timestamps is a possible result, SQL leaves the
\* order of equal keys open.
RECURSIVE OrderDesc(_, _, _)
OrderDesc(st, S, k) ==
  IF k = 0 \/ S = {} THEN { <<>> }
  ELSE UNION { { <<i>> \o t : t \in OrderDesc(st, S \ {i}, k - 1) } :
               i \in { i \in S : \A j \in S : st[i].timestamp >= st[j].timestamp } }

\* All rows of S in "ORDER BY timestamp ASC".
RECURSIVE OrderAsc(_, _)
OrderAsc(st, S) ==
  IF S = {} THEN { <<>> }
  ELSE UNION { { <<i>> \o t : t \in OrderAsc(st, S \ {i}) } :
               i \in { i \in S : \A j \in S : st[i].timestamp <= st[j].timestamp } }

\* a slip: the WHERE clause is missing
LatestTwoAnyPatient(st, patient_id) == OrderDesc(st, 1..Len(st), 2)

\* SELECT ... WHERE patient_id = ? ORDER BY timestamp DESC LIMIT 2
LatestTwo(st, patient_id) == OrderDesc(st, RowsOf(st, patient_id), 2)

\* a slip: the patient's row is replaced when there is one
InsertOrReplace(st, row) ==
  IF RowsOf(st, row.patient_id) = {} THEN Append(st, row)
  ELSE [st EXCEPT ![CHOOSE i \in RowsOf(st, row.patient_id) :
                      \A j \in RowsOf(st, row.patient_id) : j <= i] = row]

\* cursor.execute("INSERT INTO measurements ..."); conn.commit()
InsertMeasurement(st, row) == Append(st, row)

\* ------------------------------------------------------ progress tracker
NoMessage == [kind |-> "none", x |-> 0, y |-> 0]

StallThreshold(is_diabetic) == IF is_diabetic THEN DiabeticStall ELSE DefaultStall

\* a slip: with no previous area the wound counts as fully improved
ImprovementNumZeroFull(latest_area, previous_area) ==
  IF previous_area > 0 THEN (previous_area - latest_area) * 100 ELSE 100

\* improvement = (previous - latest) / previous * 100 if previous > 0 else 0,
\* as the fraction num / den
ImprovementNum(latest_area, previous_area) ==
  IF previous_area > 0 THEN (previous_area - latest_area) * 100 ELSE 0

ImprovementDen(previous_area) == IF previous_area > 0 THEN previous_area ELSE 1

\* a slip: "<=" for "<"
BelowOrAtThreshold(num, den, stall_threshold) == num <= stall_threshold * den

\* improvement < stall_threshold
BelowThreshold(num, den, stall_threshold) == num < stall_threshold * den

\* api.py:69-75: the comparison of the two areas.  The message keeps the
\* numbers it prints, in hundredths ("{:.2f}").
CompareAreas(latest_area, previous_area, is_diabetic) ==
  LET stall_threshold == StallThreshold(is_diabetic)
      num == ImprovementNum(latest_area, previous_area)
      den == ImprovementDen(previous_area)
  IN  IF latest_area > previous_area
      THEN [level |-> 2,
            message |-> [kind |-> "increased", x |-> AreaPct(previous_area),
                         y |-> AreaPct(latest_area)]]
      ELSE IF BelowThreshold(num, den, stall_threshold)
      THEN [level |-> 1,
            message |-> [kind |-> "stalled", x |-> RoundDiv(num * 100, den), y |-> 0]]
      ELSE [level |-> 0, message |-> NoMessage]

\* a slip: one point is enough, a missing previous area counts as 0
CheckHealingProgressOnePoint(rows, is_diabetic) ==
  IF Len(rows) < 1 THEN [level |-> 0, message |-> NoMessage]
  ELSE CompareAreas(rows[1], IF Len(rows) < 2 THEN 0 ELSE rows[2], is_diabetic)

\* rows: the areas returned by the SELECT of check_healing_progress
CheckHealingProgress(rows, is_diabetic) ==
  IF Len(rows) < 2 THEN [level |-> 0, message |-> NoMessage]
  ELSE CompareAreas(rows[1], rows[2], is_diabetic)

\* rows: the (area, redness_score, pus_score) rows returned by the SELECT of
\* check_infection_proxy; TRUE stands for the message, FALSE for None
CheckInfectionProxy(rows) ==
  IF Len(rows) < 2 THEN FALSE
  ELSE
    LET latest == rows[1]
        previous == rows[2]
    IN  /\ latest.redness_score > previous.redness_score
        /\ latest.pus_score > PusLimit
        /\ latest.area >= previous.area

\* ------------------------------------------------------------- requests
\* a slip: any() for all()
AnyModelLoaded(seg, cls) == seg \/ cls

\* all([model_segmentation, model_classifier])
ModelsLoaded(seg, cls) == seg /\ cls

\* request.form.get('patient_id', 'default_patient')
FormPatient(arg) == IF arg = NoPatient THEN DefaultPatient ELSE arg

\* True if is_diabetic_str.lower() == 'true' else False, default 'false'
FormDiabetic(arg) == arg \in {"true", "True", "TRUE"}

Idle ==
  [pc |-> "idle", patient_id |-> "", is_diabetic |-> FALSE,
   scan |-> [area |-> 0, redness |-> 0, pus |-> 0, healthy |-> 0],
   rows |-> <<>>, warning_level |-> 0, warning_message |-> NoMessage,
   timestamp |-> 0, row |-> 0]

NoResp ==
  [op |-> "none", status |-> 0, patient_id |-> "", row |-> 0,
   warning |-> NoMessage, infection_warning |-> FALSE, area |-> 0, body |-> <<>>,
   error |-> ""]

InFlight == BagToSet(reqs)

One(req) == SetToBag({req})

\* one row of the /history answer
HistoryEntry(row) ==
  [timestamp |-> row.timestamp, area |-> row.area,
   redness_score |-> row.redness_score, pus_score |-> row.pus_score,
   healthy_tissue |-> row.healthy, infected_tissue |-> 100 - row.healthy]

\* one row of the /patients answer
PatientEntry(row) ==
  [id |-> row.patient_id, status |-> row.warning_level, is_diabetic |-> row.is_diabetic]

\* SELECT m.* FROM measurements m INNER JOIN (SELECT patient_id,
\* MAX(timestamp) ... GROUP BY patient_id) latest ON m.patient_id =
\* latest.patient_id AND m.timestamp = latest.max_timestamp
LatestJoin(st) ==
  { i \in 1..Len(st) :
      \A j \in RowsOf(st, st[i].patient_id) : st[i].timestamp >= st[j].timestamp }

PatientRank(patient_id) ==
  CHOOSE k \in 1..Len(PatientOrder) : PatientOrder[k] = patient_id

\* the rows of S in "ORDER BY patient_id ASC"
RECURSIVE OrderByPatient(_, _)
OrderByPatient(st, S) ==
  IF S = {} THEN { <<>> }
  ELSE UNION { { <<i>> \o t : t \in OrderByPatient(st, S \ {i}) } :
               i \in { i \in S : \A j \in S :
                         PatientRank(st[i].patient_id) <= PatientRank(st[j].patient_id) } }

ErrorResp(op, status, patient_id, row, error) ==
  [NoResp EXCEPT !.op = op, !.status = status, !.patient_id = patient_id,
                 !.row = row, !.error = error]

\* -------------------------------------------------- dashboard (app.py)
\* One browser session of the Streamlit dashboard.  A key of
\* st.session_state is Absent or holds the patient_id of the request that
\* produced its value: analysis_results the patient_id posted to /predict,
\* history_data the patient_id asked of /history, uploaded_image_data the
\* patient whose uploader (key "uploader_<id>") gave the file.
Absent == "<absent>"
NoDashboard == "<none>"
NoSelection == <<>>

Roles == {"Home", "Doctor", "Patient"}

\* app.py:438-439: the first run sets role to "Home"
NewSession ==
  [role |-> "Home", patient_id |-> Absent, current_patient |-> Absent,
   analysis_results |-> Absent, history_data |-> Absent,
   uploaded_image_data |-> Absent]

\* selectbox: the option the selectbox of doctor_view holds, NoSelection
\* when it was not drawn; dashboard: the patient_id_to_show of the
\* analysis_dashboard that was drawn, NoDashboard when none was
NothingDrawn == [selectbox |-> NoSelection, dashboard |-> NoDashboard]

\* app.py:451
RoleKeysToClear ==
  {"analysis_results", "history_data", "patient_id", "current_patient",
   "uploaded_image_data"}

\* app.py:404, 422
PatientKeysToClear == {"history_data", "analysis_results", "uploaded_image_data"}

\* a slip: of the keys to clear only history_data is deleted
ClearHistoryOnly(ss, keys) ==
  [k \in DOMAIN ss |-> IF k \in keys \cap {"history_data"} THEN Absent ELSE ss[k]]

\* for key in keys_to_clear: if key in st.session_state: del ...
ClearKeys(ss, keys) == [k \in DOMAIN ss |-> IF k \in keys THEN Absent ELSE ss[k]]

\* app.py:443-455: the sidebar; clicked is the role of the button pressed
Sidebar(ss, clicked) ==
  IF clicked # ss.role
  THEN ClearKeys([ss EXCEPT !.role = clicked], RoleKeysToClear)
  ELSE ss

\* app.py:213-221 with api.py:159-160: history_data is set when the answer
\* is 200; reachable is FALSE when the request raises
FetchHistory(ss, patient_id, reachable) ==
  IF reachable /\ patient_id # ""
  THEN [ss EXCEPT !.history_data = patient_id]
  ELSE ss

\* patient_id.split(" ")
Words(patient_id) ==
  IF patient_id = "p1 b" THEN <<"p1", "b">> ELSE <<patient_id>>

StatusIcon(status) ==
  IF status = 1 THEN "warning" ELSE IF status = 2 THEN "alert" ELSE "green"

\* app.py:390-395: f"{status_icon}{patient['id']} {diabetic_icon}", kept as
\* the list of its parts between single spaces (status_icon ends in a space)
FormatPatientName(patient) ==
  <<StatusIcon(patient.status)>> \o Words(patient.id)
    \o <<IF patient.is_diabetic # 0 THEN "drop" ELSE "">>

\* app.py:401: selected_display_name.split(" ")[1]
SelectedPatientId(selected_display_name) == selected_display_name[2]

\* the lists GET /patients may answer with
PatientLists(st) ==
  { [k \in 1..Len(ids) |-> PatientEntry(st[ids[k]])] :
      ids \in OrderByPatient(st, LatestJoin(st)) }

\* app.py:381-412: the script runs doctor_view.  held: the option the
\* selectbox holds from the last run; pick: the option the user has just
\* chosen (0: none).  The selectbox returns the chosen option, else the held
\* one if it is still an option, else the first option.
DoctorView(ss, held, st, pick) ==
  LET failed == [ss |-> ss, screen |-> NothingDrawn]
  IN  {failed} \cup
      UNION {
        IF patient_list_data = <<>> THEN {failed}
        ELSE
          LET options == [k \in 1..Len(patient_list_data) |->
                            FormatPatientName(patient_list_data[k])]
              selected_display_name ==
                IF pick \in 1..Len(options) THEN options[pick]
                ELSE IF \E k \in 1..Len(options) : options[k] = held THEN held
                ELSE options[1]
              selected_patient_id == SelectedPatientId(selected_display_name)
          IN  { [ss |-> IF ss.current_patient # selected_patient_id
                        THEN FetchHistory(
                               ClearKeys([ss EXCEPT !.current_patient = selected_patient_id],
                                         PatientKeysToClear),
                               selected_patient_id, reachable)
                        ELSE ss,
                 screen |-> [selectbox |-> selected_display_name,
                             dashboard |-> selected_patient_id]] :
                reachable \in BOOLEAN }
        : patient_list_data \in PatientLists(st) }

\* app.py:414-429: the script runs patient_view
PatientView(ss, submitted, patient_id_input) ==
  { LET ss1 == IF submitted /\ patient_id_input # ""
               THEN FetchHistory(
                      ClearKeys([ss EXCEPT !.patient_id = patient_id_input],
                                PatientKeysToClear),
                      patient_id_input, reachable)
               ELSE ss
    IN  [ss |-> ss1,
         screen |-> [selectbox |-> NoSelection,
                     dashboard |-> IF ss1.patient_id # Absent
                                   THEN ss1.patient_id ELSE NoDashboard]] :
    reachable \in BOOLEAN }

\* app.py:431-434
LoginPage(ss) == { [ss |-> ss, screen |-> NothingDrawn] }

\* app.py:457-462: the results one run of the page view can have, up to the
\* Analyze Wound button
View(ss, held, st, pick, submitted, patient_id_input) ==
  IF ss.role = "Doctor" THEN DoctorView(ss, held, st, pick)
  ELSE IF ss.role = "Patient" THEN PatientView(ss, submitted, patient_id_input)
  ELSE LoginPage(ss)

\* str(is_diabetic) of the checkbox value (app.py:201)
PyStr(b) == IF b THEN "True" ELSE "False"

\* ---------------------------------------------------------------- Init
\* The module is imported: init_db() creates the table if it is missing
\* and the two models are loaded, the segmentation model first.
ModelLoads == { <<FALSE, FALSE>>, <<TRUE, FALSE>>, <<TRUE, TRUE>> }

Init ==
  /\ store = <<>>
  /\ clock = 1
  /\ \E m \in ModelLoads : model_segmentation = m[1] /\ model_classifier = m[2]
  /\ reqs = EmptyBag
  /\ resp = NoResp
  /\ session_state = NewSession
  /\ screen = NothingDrawn

\* --------------------------------------------------------------- /predict
\* api.py:108-109: a model handle is None
PredictUnavailable ==
  /\ ~ModelsLoaded(model_segmentation, model_classifier)
  /\ resp' = ErrorResp("predict", 500, "", 0, "models failed to load")
  /\ UNCHANGED <<store, clock, model_segmentation, model_classifier, reqs, session_state, screen>>

\* api.py:112: request.files['file'] with no file part aborts with 400
PredictNoFile ==
  /\ ModelsLoaded(model_segmentation, model_classifier)
  /\ resp' = ErrorResp("predict", 400, "", 0, "bad request")
  /\ UNCHANGED <<store, clock, model_segmentation, model_classifier, reqs, session_state, screen>>

\* api.py:116-129, 153-154: the image cannot be opened, a model call or the
\* read of check_healing_progress raises
PredictFails ==
  /\ ModelsLoaded(model_segmentation, model_classifier)
  /\ resp' = ErrorResp("predict", 500, "", 0, "exception")
  /\ UNCHANGED <<store, clock, model_segmentation, model_classifier, reqs, session_state, screen>>

\* api.py:108-129, 136: the metrics of the photograph are computed,
\* check_healing_progress reads the two latest stored areas, time.time()
PredictBegin(parg, darg, scan) ==
  /\ ModelsLoaded(model_segmentation, model_classifier)
  /\ BagCardinality(reqs) < NReq
  /\ Len(store) + BagCardinality(reqs) < MaxRows
  /\ LET patient_id == FormPatient(parg)
         is_diabetic == FormDiabetic(darg)
     IN  \E ids \in LatestTwo(store, patient_id) :
           LET rows == [k \in 1..Len(ids) |-> store[ids[k]].area]
               res == CheckHealingProgress(rows, is_diabetic)
           IN  reqs' = reqs (+) One(
                         [Idle EXCEPT !.pc = "insert", !.patient_id = patient_id,
                                      !.is_diabetic = is_diabetic, !.scan = scan,
                                      !.rows = rows,
                                      !.warning_level = res.level,
                                      !.warning_message = res.message,
                                      !.timestamp = clock])
  /\ resp' = NoResp
  /\ UNCHANGED <<store, clock, model_segmentation, model_classifier, session_state, screen>>

NewRow(req) ==
  [patient_id |-> req.patient_id, timestamp |-> req.timestamp,
   area |-> req.scan.area, warning_level |-> req.warning_level,
   is_diabetic |-> IF req.is_diabetic THEN 1 ELSE 0,
   redness_score |-> req.scan.redness,
   pus_score |-> req.scan.pus, healthy |-> req.scan.healthy]

\* api.py:130-138: INSERT and commit
PredictInsert(req) ==
  /\ req.pc = "insert"
  /\ store' = InsertMeasurement(store, NewRow(req))
  /\ reqs' = (reqs (-) One(req)) (+) One([req EXCEPT !.pc = "infect", !.rows = <<>>, !.row = Len(store) + 1])
  /\ resp' = NoResp
  /\ UNCHANGED <<clock, model_segmentation, model_classifier, session_state, screen>>

\* api.py:130-137, 153-154: connect, execute or commit raises; nothing is
\* committed
PredictInsertFails(req) ==
  /\ req.pc = "insert"
  /\ reqs' = reqs (-) One(req)
  /\ resp' = ErrorResp("predict", 500, req.patient_id, 0, "exception")
  /\ UNCHANGED <<store, clock, model_segmentation, model_classifier, session_state, screen>>

\* api.py:139-152: check_infection_proxy reads the two latest rows and the
\* answer is sent
PredictFinish(req) ==
  /\ req.pc = "infect"
  /\ \E ids \in LatestTwo(store, req.patient_id) :
       LET rows == [k \in 1..Len(ids) |-> store[ids[k]]]
       IN  resp' = [NoResp EXCEPT !.op = "predict", !.status = 200,
                                  !.patient_id = req.patient_id,
                                  !.row = req.row,
                                  !.warning = req.warning_message,
                                  !.infection_warning = CheckInfectionProxy(rows),
                                  !.area = AreaPct(req.scan.area)]
  /\ reqs' = reqs (-) One(req)
  /\ UNCHANGED <<store, clock, model_segmentation, model_classifier, session_state, screen>>

\* api.py:139-143, 153-154: the read of check_infection_proxy or the
\* encoding of the mask raises after the commit
PredictFinishFails(req) ==
  /\ req.pc = "infect"
  /\ reqs' = reqs (-) One(req)
  /\ resp' = ErrorResp("predict", 500, req.patient_id, req.row, "exception")
  /\ UNCHANGED <<store, clock, model_segmentation, model_classifier, session_state, screen>>

\* --------------------------------------------------------------- /history
\* a slip: a patient that is asked for and has no row is given an empty one
HistoryRegistersPatient(parg) ==
  /\ IF parg = NoPatient
     THEN /\ resp' = ErrorResp("history", 400, "", 0, "Patient ID is required")
          /\ store' = store
     ELSE /\ \E ids \in OrderAsc(store, RowsOf(store, parg)) :
               resp' = [NoResp EXCEPT !.op = "history", !.status = 200,
                                      !.patient_id = parg,
                                      !.body = [k \in 1..Len(ids) |->
                                                  HistoryEntry(store[ids[k]])]]
          /\ store' = IF RowsOf(store, parg) = {} /\ Len(store) < MaxRows
                      THEN Append(store,
                                  [patient_id |-> parg, timestamp |-> clock, area |-> 0,
                                   warning_level |-> 0, is_diabetic |-> 0,
                                   redness_score |-> 0, pus_score |-> 0, healthy |-> 0])
                      ELSE store
  /\ UNCHANGED <<clock, model_segmentation, model_classifier, reqs, session_state, screen>>

History(parg) ==
  /\ IF parg = NoPatient
     THEN resp' = ErrorResp("history", 400, "", 0, "Patient ID is required")
     ELSE \E ids \in OrderAsc(store, RowsOf(store, parg)) :
            resp' = [NoResp EXCEPT !.op = "history", !.status = 200,
                                   !.patient_id = parg,
                                   !.body = [k \in 1..Len(ids) |->
                                               HistoryEntry(store[ids[k]])]]
  /\ UNCHANGED <<store, clock, model_segmentation, model_classifier, reqs, session_state, screen>>

\* -------------------------------------------------------------- /patients
GetAllPatients ==
  /\ \E ids \in OrderByPatient(store, LatestJoin(store)) :
       resp' = [NoResp EXCEPT !.op = "patients", !.status = 200,
                              !.body = [k \in 1..Len(ids) |->
                                          PatientEntry(store[ids[k]])]]
  /\ UNCHANGED <<store, clock, model_segmentation, model_classifier, reqs, session_state, screen>>

\* ------------------------------------------------------------ environment
\* the wall clock advances
Tick ==
  /\ clock < MaxClock
  /\ clock' = clock + 1
  /\ resp' = NoResp
  /\ UNCHANGED <<store, model_segmentation, model_classifier, reqs, session_state, screen>>

\* The process is stopped and started again: the requests in flight are
\* lost, wound_data.db stays, the models are loaded anew.
Restart ==
  /\ \E m \in ModelLoads : model_segmentation' = m[1] /\ model_classifier' = m[2]
  /\ reqs' = EmptyBag
  /\ resp' = NoResp
  /\ UNCHANGED <<store, clock, session_state, screen>>

\* ------------------------------------------------------ dashboard events
\* the text the patient portal's form is submitted with
PatientInputs == {"", "p1", "p1 b"}

\* the photographs uploaded through the dashboard
DashboardScans == { t \in Scans : t.redness <= 1000 }

\* A sidebar button is pressed (app.py:444-449).  When the role changes the
\* keys are cleared and st.rerun() starts the script again, with no button
\* pressed and the selectbox not drawn in between.
ClickRole(clicked) ==
  /\ \E run \in View(Sidebar(session_state, clicked),
                     IF clicked # session_state.role THEN NoSelection
                     ELSE screen.selectbox,
                     store, 0, FALSE, "") :
       /\ session_state' = run.ss
       /\ screen' = run.screen
  /\ UNCHANGED <<store, clock, model_segmentation, model_classifier, reqs, resp>>

\* the doctor chooses option pick of the selectbox (app.py:398)
SelectPatient(pick) ==
  /\ session_state.role = "Doctor"
  /\ screen.selectbox # NoSelection
  /\ \E run \in DoctorView(session_state, screen.selectbox, store, pick) :
       /\ session_state' = run.ss
       /\ screen' = run.screen
  /\ UNCHANGED <<store, clock, model_segmentation, model_classifier, reqs, resp>>

\* "Load My Data" is pressed (app.py:418-427)
SubmitPatientForm(patient_id_input) ==
  /\ session_state.role = "Patient"
  /\ \E run \in PatientView(session_state, TRUE, patient_id_input) :
       /\ session_state' = run.ss
       /\ screen' = run.screen
  /\ UNCHANGED <<store, clock, model_segmentation, model_classifier, reqs, resp>>

\* any other widget changes (the checkbox, the uploader): the script runs
\* with no button pressed
Rerun ==
  /\ \E run \in View(session_state, screen.selectbox, store, 0, FALSE, "") :
       /\ session_state' = run.ss
       /\ screen' = run.screen
  /\ UNCHANGED <<store, clock, model_segmentation, model_classifier, reqs, resp>>

\* "Analyze Wound" is pressed on the dashboard that is on the screen, with a
\* file in its uploader (app.py:263-264, 196-211).  The script runs the page
\* view first; when that draws the dashboard of another patient, or none,
\* the uploader of that dashboard is empty and analyze_wound is not reached.
\* requests.post waits for the answer, so /predict runs from api.py:108 to
\* its return within the step.
AnalyzeWound(is_diabetic_checkbox, scan) ==
  /\ screen.dashboard # NoDashboard
  /\ Len(store) < MaxRows
  /\ reqs = EmptyBag
  /\ \E run \in View(session_state, screen.selectbox, store, 0, FALSE, "") :
       /\ screen' = run.screen
       /\ IF run.screen.dashboard # screen.dashboard
          THEN /\ session_state' = run.ss
               /\ store' = store
          ELSE
            LET patient_id == run.screen.dashboard
                sent == [run.ss EXCEPT !.uploaded_image_data = patient_id]
                is_diabetic == FormDiabetic(PyStr(is_diabetic_checkbox))
            IN  \/ \* the backend is not reached, or answers 500 before the INSERT
                   /\ session_state' = sent
                   /\ store' = store
                \/ /\ ModelsLoaded(model_segmentation, model_classifier)
                   /\ \E ids \in LatestTwo(store, FormPatient(patient_id)) :
                        LET rows == [k \in 1..Len(ids) |-> store[ids[k]].area]
                            res == CheckHealingProgress(rows, is_diabetic)
                            req == [Idle EXCEPT !.patient_id = FormPatient(patient_id),
                                                !.is_diabetic = is_diabetic,
                                                !.scan = scan,
                                                !.warning_level = res.level,
                                                !.warning_message = res.message,
                                                !.timestamp = clock]
                        IN  store' = InsertMeasurement(store, NewRow(req))
                   /\ \/ \* 200: the answer is kept and the history fetched
                         \E reachable \in BOOLEAN :
                           session_state' =
                             FetchHistory([sent EXCEPT !.analysis_results = patient_id],
                                          patient_id, reachable)
                      \/ \* 500 after the commit (api.py:139-143, 153-154)
                         session_state' = sent
  /\ UNCHANGED <<clock, model_segmentation, model_classifier, reqs, resp>>

NextUI ==
  \/ \E clicked \in Roles : ClickRole(clicked)
  \/ \E pick \in 1..MaxRows : SelectPatient(pick)
  \/ \E patient_id_input \in PatientInputs : SubmitPatientForm(patient_id_input)
  \/ Rerun
  \/ \E is_diabetic_checkbox \in BOOLEAN, scan \in DashboardScans :
       AnalyzeWound(is_diabetic_checkbox, scan)
  \/ Tick
  \/ Restart

SpecUI == Init /\ [][NextUI]_vars

\* A request that does not write (a query, a /predict that fails before it
\* reaches the table) changes nothing but resp, and no request in flight
\* reads resp: the clients send those between the uploads in flight, which
\* yields every pair of table and answer that any interleaving yields.
Quiet == reqs = EmptyBag

Next ==
  \/ PredictUnavailable
  \/ (Quiet /\ PredictNoFile)
  \/ (Quiet /\ PredictFails)
  \/ \E up \in Uploads : PredictBegin(up.patient_id, up.is_diabetic, up.scan)
  \/ \E req \in InFlight : PredictInsert(req)
  \/ \E req \in InFlight : PredictInsertFails(req)
  \/ \E req \in InFlight : PredictFinish(req)
  \/ \E req \in InFlight : PredictFinishFails(req)
  \/ \E parg \in PatientArgs \cup {DefaultPatient} : (Quiet /\ History(parg))
  \/ (Quiet /\ GetAllPatients)
  \/ Tick
  \/ Restart

Spec == Init /\ [][Next]_vars

TypeOK ==
  /\ clock \in 1..MaxClock
  /\ Len(store) <= MaxRows
  /\ \A i \in 1..Len(store) : store[i].timestamp \in 1..MaxClock

\* ------------------------------------------------------------ properties
\* the /predict requests that the step just taken has started
Started ==
  { req \in BagToSet(reqs') : req.pc = "insert" /\ CopiesIn(req, reqs') > CopiesIn(req, reqs) }

\* the rows of the patient of row i that were inserted before it
Before(i, patient_id) == { j \in RowsOf(store, patient_id) : j < i }

LastOf(S) == CHOOSE m \in S : \A j \in S : j <= m

\* C1: the level and the message of a /predict request (and so the
\* warning_level of the row it inserts) come from comparing the area the
\* request has just computed with the area of the most recent row stored for
\* the patient; with no stored row they are 0 and no message.
C1_LevelFromNewAndLastStored ==
  [][ \A req \in Started :
        \E ids \in OrderDesc(store, RowsOf(store, req.patient_id), 1) :
          LET expected ==
                IF ids = <<>> THEN [level |-> 0, message |-> NoMessage]
                ELSE CompareAreas(req.scan.area, store[ids[1]].area, req.is_diabetic)
          IN  /\ req.warning_level = expected.level
              /\ req.warning_message = expected.message ]_vars

\* C2: a request whose area is strictly greater than the area of the
\* patient's previous measurement gets warning_level 2, whatever is_diabetic,
\* redness_score, pus_score and the older measurements are.
C2_LargerAreaIsWorsening ==
  [][ \A req \in Started :
        \A ids \in OrderDesc(store, RowsOf(store, req.patient_id), 1) :
          (ids # <<>> /\ req.scan.area > store[ids[1]].area)
            => req.warning_level = 2 ]_vars

\* C3: every stored warning_level is 0, 1 or 2; a row written while the
\* patient has fewer than 2 measurements has warning_level 0, and the request
\* that wrote it answers with no warning message.
C3_LevelRangeAndFewerThanTwo ==
  /\ \A i \in 1..Len(store) : store[i].warning_level \in {0, 1, 2}
  /\ \A i \in 1..Len(store) :
       Cardinality(Before(i, store[i].patient_id)) < 2 => store[i].warning_level = 0
  /\ (/\ resp.op = "predict"
      /\ resp.status = 200
      /\ Cardinality(Before(resp.row, resp.patient_id)) < 2)
       => resp.warning = NoMessage

\* C3 witness: the answer to the second upload of a patient, whose area grew
C3_Witness ==
  /\ resp.op = "predict"
  /\ resp.status = 200
  /\ resp.row = 2
  /\ store[1].patient_id = store[2].patient_id
  /\ store[2].area > store[1].area
  /\ store[2].warning_level = 0

\* C4: the infection signal of a /predict answer is set exactly when the
\* request's row has a predecessor for the patient and, with latest = the
\* request's row and previous = the row before it, redness rose, pus is above
\* 5.0 and the area did not shrink.
C4_InfectionFromOwnRow ==
  (resp.op = "predict" /\ resp.status = 200) =>
    LET prior == Before(resp.row, resp.patient_id)
    IN  resp.infection_warning =
          (/\ prior # {}
           /\ store[resp.row].redness_score > store[LastOf(prior)].redness_score
           /\ store[resp.row].pus_score > 500
           /\ store[resp.row].area >= store[LastOf(prior)].area)

\* C5: for a compared pair with latest <= previous and previous > 0 the
\* level is 1 exactly when the improvement (previous - latest) / previous *
\* 100 is strictly below 1.0 for a diabetic and 2.0 otherwise, else 0; an
\* improvement of exactly 1.0 is a stall for a non-diabetic and none for a
\* diabetic.
C5_StallIsStrictlyBelowThreshold ==
  \A req \in InFlight :
    (Len(req.rows) = 2 /\ req.rows[1] <= req.rows[2] /\ req.rows[2] > 0) =>
      LET latest == req.rows[1]
          previous == req.rows[2]
          threshold == IF req.is_diabetic THEN 1 ELSE 2
      IN  /\ req.warning_level \in {0, 1}
          /\ (req.warning_level = 1) <=> ((previous - latest) * 100 < threshold * previous)
          /\ ((previous - latest) * 100 = threshold * previous) => req.warning_level = 0
          /\ ((previous - latest) * 100 = previous)
               => req.warning_level = (IF req.is_diabetic THEN 0 ELSE 1)

\* C5 witness: a diabetic patient's request that compared an improvement of
\* exactly 1.0 percent and found no stall
C5_Witness ==
  \E req \in InFlight :
    /\ req.rows = <<9702, 9800>>
    /\ req.is_diabetic
    /\ req.warning_level = 0

\* C6: a /predict request that answers with an error has inserted no row.
C6_ErrorMeansNoRow ==
  (resp.op = "predict" /\ resp.status # 200) => resp.row = 0

\* C7: the warning_level of a row is the one check_healing_progress gives
\* for the patient's two most recent rows at the moment the row is appended.
C7_LevelFromRowsLatestAtAppend ==
  [][ Len(store') > Len(store) =>
        LET new == store'[Len(store')]
        IN  \E ids \in LatestTwo(store, new.patient_id) :
              new.warning_level =
                CheckHealingProgress([k \in 1..Len(ids) |-> store[ids[k]].area],
                                     new.is_diabetic = 1).level ]_vars

\* C8: no step changes or removes a stored row; a step adds at most one row,
\* only the INSERT of a /predict request adds one and it is a row of that
\* request's patient; a request holds no row before its INSERT and exactly
\* its own row after, and that is the row its answer reports.
C8_AppendOnly ==
  [][ /\ Len(store') >= Len(store)
      /\ SubSeq(store', 1, Len(store)) = store
      /\ Len(store') <= Len(store) + 1
      /\ resp'.op \in {"history", "patients"} => store' = store
      /\ store' # store =>
           \E req \in InFlight :
             /\ req.pc = "insert"
             /\ req.row = 0
             /\ store'[Len(store')].patient_id = req.patient_id
             /\ \E done \in BagToSet(reqs') :
                  /\ done.pc = "infect"
                  /\ done.row = Len(store')
                  /\ done.patient_id = req.patient_id
      /\ (resp'.op = "predict" /\ resp'.status = 200 /\ reqs' # reqs) =>
           /\ store' = store
           /\ \E req \in InFlight :
                /\ req.pc = "infect"
                /\ req.row = resp'.row
                /\ req.row \in 1..Len(store)
                /\ store[req.row].patient_id = req.patient_id
                /\ resp'.patient_id = req.patient_id
                /\ \A other \in InFlight : other.row = req.row => other = req ]_vars

\* C8 witness: a full table with rows of both patients, just answered
C8_Witness ==
  /\ resp.op = "predict"
  /\ resp.status = 200
  /\ Len(store) = 3
  /\ resp.row = 3
  /\ PatientIds(store) = {"p1", DefaultPatient}

\* C9: the /patients answer has exactly one entry for every patient_id in
\* the table, with the warning_level and is_diabetic of a most recent row of
\* that patient, also when two rows of the patient have the same timestamp.
C9_OneEntryPerPatient ==
  resp.op = "patients" =>
    /\ Len(resp.body) = Cardinality(PatientIds(store))
    /\ \A p \in PatientIds(store) :
         \E k \in 1..Len(resp.body) :
           \E i \in RowsOf(store, p) :
             /\ \A j \in RowsOf(store, p) : store[i].timestamp >= store[j].timestamp
             /\ resp.body[k] = PatientEntry(store[i])

\* C10: while a model is missing no step changes the table or starts a
\* request, every /predict answer is the models-failed error, and the
\* /history and /patients answers are successes that carry the rows of the
\* table.
C10_UnavailableWithoutModels ==
  [][ ~(model_segmentation /\ model_classifier) =>
        /\ store' = store
        /\ reqs' = reqs
        /\ resp'.op = "predict" =>
             (resp'.status = 500 /\ resp'.error = "models failed to load" /\ resp'.row = 0)
        /\ (resp'.op = "history" /\ resp'.patient_id = "p1") =>
             /\ resp'.status = 200
             /\ { resp'.body[k] : k \in 1..Len(resp'.body) } =
                  { HistoryEntry(store[i]) : i \in RowsOf(store, "p1") }
        /\ resp'.op = "patients" =>
             /\ resp'.status = 200
             /\ { resp'.body[k].id : k \in 1..Len(resp'.body) } = PatientIds(store) ]_vars

\* C10 witness: the models-failed answer over a table that holds rows
C10_Witness ==
  /\ ~(model_segmentation /\ model_classifier)
  /\ Len(store) >= 2
  /\ resp.op = "predict"
  /\ resp.status = 500
  /\ resp.error = "models failed to load"

\* the k-th row of S in the order the rows were appended
NthOf(S, k) == CHOOSE i \in S : Cardinality({ j \in S : j <= i }) = k

\* C11: a /history answer holds every stored row of the patient and no row
\* of another patient, in ascending order of timestamp, and that is the
\* order in which the rows were appended; its last element is the row that
\* latest_two returns first.
C11_HistoryInAppendOrder ==
  (resp.op = "history" /\ resp.status = 200) =>
    LET own == RowsOf(store, resp.patient_id)
        n == Len(resp.body)
    IN  /\ n = Cardinality(own)
        /\ \A k \in 1..n : resp.body[k] = HistoryEntry(store[NthOf(own, k)])
        /\ \A k \in 1..(n - 1) : resp.body[k].timestamp <= resp.body[k + 1].timestamp
        /\ \A ids \in LatestTwo(store, resp.patient_id) :
             ids # <<>> => resp.body[n] = HistoryEntry(store[ids[1]])

\* the table as one patient sees it: the patient's rows, in rowid order
Own(st, patient_id) == SelectSeq(st, LAMBDA row : row.patient_id = patient_id)

\* the two latest rows of a table that holds one patient's rows only
LatestTwoOwn(own) == OrderDesc(own, 1..Len(own), 2)

\* C12: the level and message a /predict request computes and the infection
\* signal it answers with are results that the patient's own rows alone
\* allow (the table with every other patient's rows removed gives them), and
\* an INSERT for one patient leaves the rows of every other patient as they
\* are.
C12_PatientIsolation ==
  [][ /\ \A req \in Started :
           LET own == Own(store, req.patient_id)
           IN  \E ids \in LatestTwoOwn(own) :
                 LET res == CheckHealingProgress([k \in 1..Len(ids) |-> own[ids[k]].area],
                                                 req.is_diabetic)
                 IN  /\ req.warning_level = res.level
                     /\ req.warning_message = res.message
      /\ (resp'.op = "predict" /\ resp'.status = 200) =>
           LET own == Own(store, resp'.patient_id)
           IN  \E ids \in LatestTwoOwn(own) :
                 resp'.infection_warning =
                   CheckInfectionProxy([k \in 1..Len(ids) |-> own[ids[k]]])
      /\ Len(store') > Len(store) =>
           \A p \in PatientIds(store) :
             p # store'[Len(store')].patient_id => Own(store', p) = Own(store, p) ]_vars

\* C12 witness: patient p1 is answered with the infection signal computed from
\* p1's rows 1 and 3 while the row between them belongs to another patient
C12_Witness ==
  /\ resp.op = "predict"
  /\ resp.status = 200
  /\ resp.patient_id = "p1"
  /\ resp.row = 3
  /\ Len(store) = 3
  /\ store[1].patient_id = "p1"
  /\ store[2].patient_id = DefaultPatient
  /\ store[2].timestamp >= store[1].timestamp
  /\ store[2].redness_score > store[1].redness_score
  /\ store[3].redness_score > store[1].redness_score
  /\ resp.infection_warning

\* C13: a step that answers /history or /patients, whatever the patient_id
\* argument (given, missing, or of a patient with no row), leaves the table
\* as it is and starts no request that would write.
C13_QueriesNeverWrite ==
  [][ resp'.op \in {"history", "patients"} =>
        /\ store' = store
        /\ reqs' = reqs ]_vars

\* C13 witness: /history was asked for a patient that has no row while the
\* table holds rows of another patient
C13_Witness ==
  /\ resp.op = "history"
  /\ resp.status = 200
  /\ resp.patient_id = "p1"
  /\ resp.body = <<>>
  /\ Len(store) >= 1
  /\ PatientIds(store) = {DefaultPatient}

\* C14: a request that compared a previous area of 0 found a stall (level 1)
\* with a reported improvement of 0.00 percent when the latest area is 0 too,
\* for a diabetic patient and for any other, and found level 2 with the
\* increase from 0.00 percent reported when the latest area is above 0.
C14_ZeroPreviousArea ==
  \A req \in InFlight :
    (Len(req.rows) = 2 /\ req.rows[2] = 0) =>
      /\ req.rows[1] = 0 =>
           /\ req.warning_level = 1
           /\ req.warning_message = [kind |-> "stalled", x |-> 0, y |-> 0]
      /\ req.rows[1] > 0 =>
           /\ req.warning_level = 2
           /\ req.warning_message.kind = "increased"
           /\ req.warning_message.x = 0
           /\ req.warning_message.y > 0

\* C14 witness: a diabetic patient's request that compared two areas of 0
C14_Witness ==
  \E req \in InFlight :
    /\ req.rows = <<0, 0>>
    /\ req.is_diabetic
    /\ req.warning_level = 1
    /\ \E i \in 1..Len(store) : store[i].patient_id = req.patient_id /\ store[i].is_diabetic = 0

\* the patient the session is about: the one selected in the doctor's view,
\* the one entered in the patient portal
Subject(ss) ==
  IF ss.role = "Doctor" THEN ss.current_patient
  ELSE IF ss.role = "Patient" THEN ss.patient_id
  ELSE Absent

DataKeys == {"analysis_results", "history_data", "uploaded_image_data"}

====
